---- MODULE Spec2Model ----
(***************************************************************************)
(* VinAuto virtual-screening package: the docking-box calculator           *)
(* (dock_box.py), the per-ligand docking supervisor (docking.py) and the   *)
(* pipeline controller (pipeline.py).                                      *)
(*                                                                         *)
(* Text.  A line of text is a sequence of chunks.  A chunk is either the   *)
(* whitespace chunk " " or a run of non-whitespace characters; a word may  *)
(* be cut into two adjacent chunks where the code tests a prefix of it     *)
(* ("RESULT:" followed by "-7.2").  str.startswith is the chunk prefix     *)
(* test and str.split() groups maximal runs of non-whitespace chunks into  *)
(* tokens, so a token is itself a sequence of chunks.                      *)
(*                                                                         *)
(* Numbers.  A Python float is a fixed-point integer counting halves       *)
(* (Fixed(5) is 5.0), so that (min + max) / 2.0 is exact for the whole     *)
(* valued coordinates the inputs use.  float('inf') is the sentinel        *)
(* PosInf, larger than every coordinate.                                   *)
(***************************************************************************)
EXTENDS Integers, Sequences, FiniteSets, TLC

VARIABLES
    pdbqt,      \* dock_box: lines of the structure file handed to calculate_docking_box
    padding,    \* dock_box: the padding argument
    scanned,    \* dock_box: the lines as they stood when calculate_docking_box read them
    box,        \* dock_box: what calculate_docking_box returned or raised
    ligand_folder,   \* docking: names of the files in ligand_folder
    listing,         \* docking: os.listdir(ligand_folder), in the order it came
    idx,             \* docking: position in listing of the next file to process
    dpc,             \* docking: "idle", "loop" (inside the with/for) or "returned"
    out_folder,      \* docking: files of out_folder, name -> lines
    summary,         \* docking: lines of the summary file log_file, each a tab-separated pair
    docking_results, \* docking: the list run_docking builds and returns
    jobs,            \* history: the engine invocations of this run, in order
    written,         \* history: the files of out_folder written during this run
    earlier,         \* history: what an earlier call of run_docking with the same arguments left
    ppc,             \* pipeline: the stage run_pipeline is at; "standalone" outside a pipeline run
    smiles_data,     \* pipeline: the molecule names of the rows load_smiles returned
    row,             \* pipeline: position in smiles_data of the next row to convert
    mol2_dir,        \* pipeline: names of the files in <output_dir>/mol2_files
    pdbqt_files,     \* pipeline: the paths convert_mol2_to_pdbqt returned
    receptor,        \* pipeline: "ok" once convert_pdb_to_pdbqt returned
    normalized,      \* pipeline: the artifacts normalize_pdbqt_format returned for
    norm_failed,     \* history: the artifacts normalize_pdbqt_format raised on
    fatal            \* pipeline: the stage whose exception left run_pipeline, "" if none

boxVars == <<pdbqt, padding, scanned, box>>
dockVars == <<ligand_folder, listing, idx, dpc, out_folder, summary, docking_results, jobs, written, earlier>>
pipeRest == <<smiles_data, row, mol2_dir, pdbqt_files, receptor, normalized, norm_failed, fatal>>
pipeVars == <<ppc, pipeRest>>
vars == <<boxVars, dockVars, pipeVars>>

----------------------------------------------------------------------------
(* Bounds *)

MaxLines == 3
MaxLigands == 2
MaxOut == 2

----------------------------------------------------------------------------
(* Text helpers: str.startswith, str.split, float *)

IsSpace(c) == c = " "

StartsWith(line, prefix) ==
    /\ Len(line) >= Len(prefix)
    /\ SubSeq(line, 1, Len(prefix)) = prefix

\* str.split(): tokens are the maximal runs of non-whitespace chunks.
RECURSIVE SplitFrom(_, _, _, _)
SplitFrom(line, k, cur, acc) ==
    IF k > Len(line)
    THEN IF cur = <<>> THEN acc ELSE Append(acc, cur)
    ELSE IF IsSpace(line[k])
         THEN SplitFrom(line, k + 1, <<>>, IF cur = <<>> THEN acc ELSE Append(acc, cur))
         ELSE SplitFrom(line, k + 1, Append(cur, line[k]), acc)

Split(line) == SplitFrom(line, 1, <<>>, <<>>)

Fixed(n) == 2 * n

\* The numerals float() accepts, with their values.
FloatVal ==
    ("0" :> Fixed(0)) @@ ("1" :> Fixed(1)) @@ ("4" :> Fixed(4)) @@ ("6" :> Fixed(6))
    @@ ("7" :> Fixed(7)) @@ ("10" :> Fixed(10)) @@ ("-3" :> Fixed(0 - 3))
    @@ ("99" :> Fixed(99)) @@ ("0.00" :> Fixed(0))

\* float(tok) succeeds exactly on a token that is one numeral.
CanFloat(tok) == Len(tok) = 1 /\ tok[1] \in DOMAIN FloatVal
Float(tok) == FloatVal[tok[1]]

----------------------------------------------------------------------------
(* dock_box.py: calculate_docking_box *)

PosInf == 1000000
NegInf == 0 - PosInf

InitExtrema ==
    [min_x |-> PosInf, min_y |-> PosInf, min_z |-> PosInf,
     max_x |-> NegInf, max_y |-> NegInf, max_z |-> NegInf]

IsAtomLine(line) == StartsWith(line, <<"ATOM">>) \/ StartsWith(line, <<"HETATM">>)

\* x = float(fields[6]); y = float(fields[7]); z = float(fields[8]):
\* IndexError when a field is missing, ValueError when one is no number.
CoordsOk(fields) ==
    /\ Len(fields) >= 9
    /\ CanFloat(fields[7]) /\ CanFloat(fields[8]) /\ CanFloat(fields[9])

\* "elif" in place of the second "if" of each axis.
UpdateExtrema_elif(e, x, y, z) ==
    [min_x |-> IF x < e.min_x THEN x ELSE e.min_x,
     max_x |-> IF x < e.min_x THEN e.max_x ELSE IF x > e.max_x THEN x ELSE e.max_x,
     min_y |-> IF y < e.min_y THEN y ELSE e.min_y,
     max_y |-> IF y < e.min_y THEN e.max_y ELSE IF y > e.max_y THEN y ELSE e.max_y,
     min_z |-> IF z < e.min_z THEN z ELSE e.min_z,
     max_z |-> IF z < e.min_z THEN e.max_z ELSE IF z > e.max_z THEN z ELSE e.max_z]

UpdateExtrema(e, x, y, z) ==
    [min_x |-> IF x < e.min_x THEN x ELSE e.min_x,
     max_x |-> IF x > e.max_x THEN x ELSE e.max_x,
     min_y |-> IF y < e.min_y THEN y ELSE e.min_y,
     max_y |-> IF y > e.max_y THEN y ELSE e.max_y,
     min_z |-> IF z < e.min_z THEN z ELSE e.min_z,
     max_z |-> IF z > e.max_z THEN z ELSE e.max_z]

\* Each axis updated as soon as its own token parsed, the rest of a
\* malformed line dropped.
ScanLine_partial(e, line) ==
    IF ~IsAtomLine(line) THEN e
    ELSE LET fields == Split(line) IN
         IF Len(fields) >= 7 /\ CanFloat(fields[7])
         THEN LET x == Float(fields[7]) IN
              IF CoordsOk(fields)
              THEN UpdateExtrema(e, x, Float(fields[8]), Float(fields[9]))
              ELSE [e EXCEPT !.min_x = IF x < e.min_x THEN x ELSE e.min_x,
                             !.max_x = IF x > e.max_x THEN x ELSE e.max_x]
         ELSE e

\* The tag of the line is not looked at.
ScanLine_anytag(e, line) ==
    LET fields == Split(line) IN
    IF ~CoordsOk(fields) THEN e
    ELSE UpdateExtrema(e, Float(fields[7]), Float(fields[8]), Float(fields[9]))

\* The body of the "for line in f" loop for one line.
ScanLine(e, line) ==
    IF ~IsAtomLine(line) THEN e
    ELSE LET fields == Split(line) IN
         IF ~CoordsOk(fields) THEN e
         ELSE UpdateExtrema(e, Float(fields[7]), Float(fields[8]), Float(fields[9]))

\* "break" in place of "continue" on a malformed atom line.
RECURSIVE ScanLines_break(_, _, _)
ScanLines_break(lines, k, e) ==
    IF k > Len(lines) THEN e
    ELSE IF IsAtomLine(lines[k]) /\ ~CoordsOk(Split(lines[k])) THEN e
    ELSE ScanLines_break(lines, k + 1, ScanLine(e, lines[k]))

RECURSIVE ScanLines(_, _, _)
ScanLines(lines, k, e) ==
    IF k > Len(lines) THEN e
    ELSE ScanLines(lines, k + 1, ScanLine(e, lines[k]))

NoBox ==
    [status |-> "none", center_x |-> 0, center_y |-> 0, center_z |-> 0,
     size_x |-> 0, size_y |-> 0, size_z |-> 0]

BoxError == [NoBox EXCEPT !.status = "ValueError"]

calculate_docking_box(lines, pad) ==
    LET e == ScanLines(lines, 1, InitExtrema) IN
    IF e.min_x = PosInf THEN BoxError
    ELSE [status |-> "ok",
          center_x |-> (e.min_x + e.max_x) \div 2,
          center_y |-> (e.min_y + e.max_y) \div 2,
          center_z |-> (e.min_z + e.max_z) \div 2,
          size_x |-> (e.max_x - e.min_x) + pad,
          size_y |-> (e.max_y - e.min_y) + pad,
          size_z |-> (e.max_z - e.min_z) + pad]

----------------------------------------------------------------------------
(* Inputs of the dock_box specification *)

\* Tokens joined by single blanks.
RECURSIVE Join(_)
Join(toks) ==
    IF Len(toks) = 0 THEN <<>>
    ELSE IF Len(toks) = 1 THEN <<toks[1]>>
    ELSE <<toks[1], " ">> \o Join(Tail(toks))

AtomRecord(tag, x, y, z) ==
    Join(<<tag, "1", "C", "LIG", "A", "1", x, y, z, "0.00">>)

LineOrigin == AtomRecord("ATOM", "0", "0", "0")
LineFar    == AtomRecord("HETATM", "10", "6", "4")
LineNeg    == AtomRecord("ATOM", "-3", "7", "1")
LineShort  == Join(<<"ATOM", "1", "C", "LIG", "A", "1", "99", "99">>)
LineBadY   == AtomRecord("ATOM", "99", "x", "99")
LineRemark == AtomRecord("REMARK", "99", "99", "99")

BoxLines == {LineOrigin, LineFar, LineNeg, LineShort, LineBadY, LineRemark}

Paddings == {Fixed(0), Fixed(10), 1}

SeqsUpTo(S, n) == UNION {[1..k -> S] : k \in 0..n}

----------------------------------------------------------------------------
(* Specification of calculate_docking_box on the bounded inputs *)

\* batch is "single" for a lone call of run_docking, "first" and "second"
\* for the two calls of a repeated batch.
NoRun(batch) == [batch |-> batch, jobs |-> <<>>, files |-> {}, summary |-> <<>>, results |-> <<>>]

DockIdle ==
    /\ earlier = NoRun("single")
    /\ ligand_folder = {}
    /\ listing = <<>>
    /\ idx = 1
    /\ dpc = "idle"
    /\ out_folder = <<>>
    /\ summary = <<>>
    /\ docking_results = <<>>
    /\ jobs = <<>>
    /\ written = {}

PipeIdle ==
    /\ ppc = "standalone"
    /\ smiles_data = <<>>
    /\ row = 1
    /\ mol2_dir = {}
    /\ pdbqt_files = {}
    /\ receptor = "none"
    /\ normalized = {}
    /\ norm_failed = {}
    /\ fatal = ""

InitBox ==
    /\ DockIdle
    /\ PipeIdle
    /\ pdbqt \in SeqsUpTo(BoxLines, MaxLines)
    /\ padding \in Paddings
    /\ scanned = <<>>
    /\ box = NoBox

CalculateDockingBox ==
    /\ box.status = "none"
    /\ box' = calculate_docking_box(pdbqt, padding)
    /\ scanned' = pdbqt
    /\ ppc = "standalone"
    /\ UNCHANGED <<pdbqt, padding, dockVars, pipeVars>>

\* The environment reorders the lines of the file.
PermuteLines ==
    /\ \E i, j \in 1..Len(pdbqt) :
          /\ i < j
          /\ pdbqt[i] # pdbqt[j]
          /\ pdbqt' = [pdbqt EXCEPT ![i] = pdbqt[j], ![j] = pdbqt[i]]
    /\ ppc = "standalone"
    /\ UNCHANGED <<padding, scanned, box, dockVars, pipeVars>>

NextBox == CalculateDockingBox \/ PermuteLines

SpecBox == InitBox /\ [][NextBox]_vars

\* The environment takes a line out of the file after it was read.
RemoveLine ==
    /\ box.status # "none"
    /\ \E k \in 1..Len(pdbqt) :
          pdbqt' = SubSeq(pdbqt, 1, k - 1) \o SubSeq(pdbqt, k + 1, Len(pdbqt))
    /\ ppc = "standalone"
    /\ UNCHANGED <<padding, scanned, box, dockVars, pipeVars>>

NextBoxEdit == CalculateDockingBox \/ RemoveLine

\* calculate_docking_box on a file and on the files left when lines are
\* taken out of it.
SpecBoxEdit == InitBox /\ [][NextBoxEdit]_vars

----------------------------------------------------------------------------
(* docking.py: run_docking *)

\* A file name is a sequence of chunks, the last one its extension when it
\* has one: <<"a", ".pdbqt">> is a.pdbqt.
IsExt(c) == c \in {".pdbqt", ".PDBQT", ".txt", ".log", ".mol2"}

\* str.lower() on the chunks the names use.
LowerChunk(c) == IF c = ".PDBQT" THEN ".pdbqt" ELSE c
Lower(name) == [k \in 1..Len(name) |-> LowerChunk(name[k])]

EndsWith(name, suffix) == Len(name) >= 1 /\ name[Len(name)] = suffix

\* os.path.splitext(name)[0]
SplitExtBase(name) ==
    IF Len(name) >= 2 /\ IsExt(name[Len(name)]) THEN SubSeq(name, 1, Len(name) - 1) ELSE name

\* ligand_file.lower().endswith(".pdbqt")
IsLigandFile(name) == EndsWith(Lower(name), ".pdbqt")

\* f"docking_{base_name}.pdbqt" and f"docking_{base_name}.log"
OutputFile(name) == <<"docking_">> \o SplitExtBase(name) \o <<".pdbqt">>
VinaLogFile(name) == <<"docking_">> \o SplitExtBase(name) \o <<".log">>

Header == << <<"Ligand">>, <<"Binding Energy (kcal/mol)">> >>

Marker == <<"REMARK", " ", "VINA", " ", "RESULT:">>

None == [some |-> FALSE, val |-> <<>>]
Some(tok) == [some |-> TRUE, val |-> tok]

\* A result line with too few tokens is passed over and a later one used.
RECURSIVE FirstResult_nobreak(_, _)
FirstResult_nobreak(lines, k) ==
    IF k > Len(lines) THEN None
    ELSE IF StartsWith(lines[k], Marker) /\ Len(Split(lines[k])) >= 4
         THEN Some(Split(lines[k])[4])
         ELSE FirstResult_nobreak(lines, k + 1)

\* for line in f_log: the first line that starts with the marker decides.
RECURSIVE FirstResult(_, _)
FirstResult(lines, k) ==
    IF k > Len(lines) THEN None
    ELSE IF StartsWith(lines[k], Marker)
         THEN LET parts == Split(lines[k]) IN
              IF Len(parts) >= 4 THEN Some(parts[4]) ELSE None
         ELSE FirstResult(lines, k + 1)

\* An empty score in place of None when nothing was found.
ExtractBindingEnergy_empty(folder, log) ==
    IF log \in DOMAIN folder /\ Len(folder[log]) > 0
    THEN LET r == FirstResult(folder[log], 1) IN IF r.some THEN r ELSE Some(<<>>)
    ELSE Some(<<>>)

\* binding_energy = None; read vina_log_file when it exists and is not empty.
ExtractBindingEnergy(folder, log) ==
    IF log \in DOMAIN folder /\ Len(folder[log]) > 0
    THEN FirstResult(folder[log], 1)
    ELSE None

WriteFile(folder, name, lines) ==
    [n \in DOMAIN folder \cup {name} |-> IF n = name THEN lines ELSE folder[n]]

\* The pose file the engine leaves at --out when it exits with status 0.
Poses == << <<" ", "MODEL", " ", "1">>, <<"ENDMDL", " ">> >>

\* Inputs: the ligand folders and the outputs the engine may print.
LigA == <<"a", ".pdbqt">>
LigB == <<"b", ".PDBQT">>
LigA2 == <<"a", ".PDBQT">>
Notes == <<"notes", ".txt">>
FileNames == {LigA, LigB, LigA2, Notes}

OutBest     == Marker \o <<" ", "-7.2", " ", "0", " ", "0">>
OutGlued    == Marker \o <<"-6.0", " ", "0">>
OutBare     == Marker
OutIndented == <<" ">> \o OutBest
OutLines == {OutBest, OutGlued, OutBare, OutIndented}

\* Outputs of at most MaxOut lines, no line printed twice.
Stdouts == { o \in SeqsUpTo(OutLines, MaxOut) : \A a, b \in 1..Len(o) : a # b => o[a] # o[b] }

\* Inside a pipeline run and in a repeated batch the engine prints a result
\* or nothing.
EngineOutputs ==
    IF ppc = "standalone" /\ earlier.batch = "single" THEN Stdouts ELSE {<<OutBest>>, <<>>}

\* A capture file an earlier run left behind.
StaleFolders == {<<>>, WriteFile(<<>>, VinaLogFile(LigA), <<OutBest>>)}

Orderings(S) == { q \in [1..Cardinality(S) -> S] : \A a, b \in 1..Cardinality(S) : a # b => q[a] # q[b] }

InitDocking ==
    /\ PipeIdle
    /\ pdbqt = <<>> /\ padding = 0 /\ scanned = <<>> /\ box = NoBox
    /\ ligand_folder \in { S \in SUBSET FileNames : Cardinality(S) <= MaxLigands }
    /\ listing = <<>>
    /\ idx = 1
    /\ dpc = "idle"
    /\ out_folder \in StaleFolders
    /\ summary = <<>>
    /\ docking_results = <<>>
    /\ jobs = <<>>
    /\ written = {}
    /\ earlier = NoRun("single")

\* The summary file is opened for appending.
RunDockingStart_append ==
    /\ dpc = "idle"
    /\ ppc \in {"standalone", "docking"}
    /\ dpc' = "loop"
    /\ docking_results' = <<>>
    /\ summary' = Append(summary, Header)
    /\ listing' \in Orderings(ligand_folder)
    /\ idx' = 1
    /\ jobs' = <<>>
    /\ written' = {}
    /\ UNCHANGED <<ligand_folder, out_folder, earlier, boxVars, pipeVars>>

\* Lines 40-49: the summary file is opened for writing, the header written
\* and the ligand folder listed.
RunDockingStart ==
    /\ dpc = "idle"
    /\ ppc \in {"standalone", "docking"}
    /\ dpc' = "loop"
    /\ docking_results' = <<>>
    /\ summary' = <<Header>>
    /\ listing' \in Orderings(ligand_folder)
    /\ idx' = 1
    /\ jobs' = <<>>
    /\ written' = {}
    /\ UNCHANGED <<ligand_folder, out_folder, earlier, boxVars, pipeVars>>

InLoop == dpc = "loop" /\ idx <= Len(listing)

Job(kind, out) == [ligand |-> listing[idx], kind |-> kind, stdout |-> out]

\* Line 50: a file that is no .pdbqt file is passed over.
SkipFile ==
    /\ InLoop
    /\ ~IsLigandFile(listing[idx])
    /\ idx' = idx + 1
    /\ UNCHANGED <<ligand_folder, listing, dpc, out_folder, summary, docking_results, jobs, written, earlier, boxVars, pipeVars>>

\* The batch ends at the first failing job.
EngineNonZero_break ==
    /\ InLoop
    /\ IsLigandFile(listing[idx])
    /\ jobs' = Append(jobs, Job("nonzero", <<>>))
    /\ idx' = Len(listing) + 1
    /\ UNCHANGED <<ligand_folder, listing, dpc, out_folder, summary, docking_results, written, earlier, boxVars, pipeVars>>

\* Lines 76-85: the engine exits with a non-zero status: continue.
EngineNonZero ==
    /\ InLoop
    /\ IsLigandFile(listing[idx])
    /\ jobs' = Append(jobs, Job("nonzero", <<>>))
    /\ idx' = idx + 1
    /\ UNCHANGED <<ligand_folder, listing, dpc, out_folder, summary, docking_results, written, earlier, boxVars, pipeVars>>

\* Lines 88-94: the engine exits with status 0 and opening the capture file
\* raises: continue.  The output of the engine is dropped with the exception.
CaptureRaises ==
    /\ InLoop
    /\ IsLigandFile(listing[idx])
    /\ jobs' = Append(jobs, Job("capture_raised", <<>>))
    /\ idx' = idx + 1
    /\ UNCHANGED <<ligand_folder, listing, dpc, out_folder, summary, docking_results, written, earlier, boxVars, pipeVars>>

\* A failed job goes on to the capture file an earlier run left.
EngineRaises_stale ==
    /\ InLoop
    /\ IsLigandFile(listing[idx])
    /\ jobs' = Append(jobs, Job("raised", <<>>))
    /\ LET energy == IF VinaLogFile(listing[idx]) \in DOMAIN out_folder
                     THEN FirstResult(out_folder[VinaLogFile(listing[idx])], 1)
                     ELSE None
       IN IF energy.some
          THEN /\ summary' = Append(summary, <<listing[idx], energy.val>>)
               /\ docking_results' = Append(docking_results,
                      [ligand |-> listing[idx], binding_energy |-> energy.val])
          ELSE UNCHANGED <<summary, docking_results>>
    /\ idx' = idx + 1
    /\ UNCHANGED <<ligand_folder, listing, dpc, out_folder, written, earlier, boxVars, pipeVars>>

\* Lines 76-82, 92-94: subprocess.run raises: continue.
EngineRaises ==
    /\ InLoop
    /\ IsLigandFile(listing[idx])
    /\ jobs' = Append(jobs, Job("raised", <<>>))
    /\ idx' = idx + 1
    /\ UNCHANGED <<ligand_folder, listing, dpc, out_folder, summary, docking_results, written, earlier, boxVars, pipeVars>>

\* The record is put at the head of the result list.
EngineOk_prepend ==
    /\ InLoop
    /\ IsLigandFile(listing[idx])
    /\ \E out \in EngineOutputs :
         LET folder == WriteFile(WriteFile(out_folder, OutputFile(listing[idx]), Poses),
                                 VinaLogFile(listing[idx]), out)
             energy == ExtractBindingEnergy(folder, VinaLogFile(listing[idx]))
         IN /\ jobs' = Append(jobs, Job("ok", out))
            /\ out_folder' = folder
            /\ written' = written \cup {VinaLogFile(listing[idx])}
            /\ IF energy.some
               THEN /\ summary' = Append(summary, <<listing[idx], energy.val>>)
                    /\ docking_results' =
                           <<[ligand |-> listing[idx], binding_energy |-> energy.val]>> \o docking_results
               ELSE UNCHANGED <<summary, docking_results>>
    /\ idx' = idx + 1
    /\ UNCHANGED <<ligand_folder, listing, dpc, earlier, boxVars, pipeVars>>

\* The capture file is not written.
EngineOk_nocapture ==
    /\ InLoop
    /\ IsLigandFile(listing[idx])
    /\ \E out \in EngineOutputs :
         LET folder == WriteFile(out_folder, OutputFile(listing[idx]), Poses)
             energy == FirstResult(out, 1)
         IN /\ jobs' = Append(jobs, Job("ok", out))
            /\ out_folder' = folder
            /\ written' = written
            /\ IF energy.some
               THEN /\ summary' = Append(summary, <<listing[idx], energy.val>>)
                    /\ docking_results' = Append(docking_results,
                           [ligand |-> listing[idx], binding_energy |-> energy.val])
               ELSE UNCHANGED <<summary, docking_results>>
    /\ idx' = idx + 1
    /\ UNCHANGED <<ligand_folder, listing, dpc, earlier, boxVars, pipeVars>>

\* Lines 76-114: the engine exits with status 0; its stdout is written to the
\* capture file, the capture file is read back for the score, and a found
\* score is appended to the summary file and to docking_results.
EngineOk ==
    /\ InLoop
    /\ IsLigandFile(listing[idx])
    /\ \E out \in EngineOutputs :
         LET folder == WriteFile(WriteFile(out_folder, OutputFile(listing[idx]), Poses),
                                 VinaLogFile(listing[idx]), out)
             energy == ExtractBindingEnergy(folder, VinaLogFile(listing[idx]))
         IN /\ jobs' = Append(jobs, Job("ok", out))
            /\ out_folder' = folder
            /\ written' = written \cup {VinaLogFile(listing[idx])}
            /\ IF energy.some
               THEN /\ summary' = Append(summary, <<listing[idx], energy.val>>)
                    /\ docking_results' = Append(docking_results,
                           [ligand |-> listing[idx], binding_energy |-> energy.val])
               ELSE UNCHANGED <<summary, docking_results>>
    /\ idx' = idx + 1
    /\ UNCHANGED <<ligand_folder, listing, dpc, earlier, boxVars, pipeVars>>

\* Lines 115-116: the loop is over, the summary file closed, the list returned.
RunDockingReturn ==
    /\ dpc = "loop"
    /\ idx > Len(listing)
    /\ dpc' = "returned"
    /\ ppc' = IF ppc = "docking" THEN "normalize" ELSE ppc
    /\ UNCHANGED <<ligand_folder, listing, idx, out_folder, summary, docking_results, jobs, written, earlier, boxVars, pipeRest>>

NextDocking ==
    \/ RunDockingStart
    \/ SkipFile
    \/ EngineNonZero
    \/ EngineRaises
    \/ CaptureRaises
    \/ EngineOk
    \/ RunDockingReturn

SpecDocking == InitDocking /\ [][NextDocking]_vars

\* A repeated batch: run_docking is called a second time with the arguments
\* of the first call, on the folders the first call left.
InitRerun ==
    /\ PipeIdle
    /\ pdbqt = <<>> /\ padding = 0 /\ scanned = <<>> /\ box = NoBox
    /\ ligand_folder \in { S \in SUBSET FileNames : Cardinality(S) <= MaxLigands }
    /\ listing = <<>>
    /\ idx = 1
    /\ dpc = "idle"
    /\ out_folder = <<>>
    /\ summary = <<>>
    /\ docking_results = <<>>
    /\ jobs = <<>>
    /\ written = {}
    /\ earlier = NoRun("first")

\* Line 116 of the first call, then the caller calls again: what the first
\* call returned and left on disk is remembered.
RunDockingAgain ==
    /\ dpc = "returned"
    /\ ppc = "standalone"
    /\ earlier.batch = "first"
    /\ earlier' = [batch |-> "second", jobs |-> jobs, files |-> DOMAIN out_folder,
                   summary |-> summary, results |-> docking_results]
    /\ dpc' = "idle"
    /\ UNCHANGED <<ligand_folder, listing, idx, out_folder, summary, docking_results, jobs, written,
                   boxVars, pipeVars>>

NextRerun == NextDocking \/ RunDockingAgain

\* Lines 76-82: the engine never exits.  subprocess.run is called without a
\* timeout, so run_docking stays blocked in it: no step follows.
EngineHangs ==
    /\ InLoop
    /\ IsLigandFile(listing[idx])
    /\ jobs' = Append(jobs, Job("hung", <<>>))
    /\ dpc' = "blocked"
    /\ UNCHANGED <<ligand_folder, listing, idx, out_folder, summary, docking_results, written, earlier, boxVars, pipeVars>>

NextHang == NextDocking \/ EngineHangs

\* One call of run_docking with an engine that may hang.  The interpreter
\* goes on whenever it has a step to take.
SpecHang == InitRerun /\ [][NextHang]_vars /\ WF_vars(NextHang)

SpecRerun == InitRerun /\ [][NextRerun]_vars

----------------------------------------------------------------------------
(* pipeline.py: run_pipeline, with the converters it calls *)

\* smiles_to_mol2.py line 18: str(name).strip().replace('/', '_')...
Sanitize(name) == IF name = "b/c" THEN "b_c" ELSE name

Mol2File(name) == <<Sanitize(name), ".mol2">>

IsMol2File(name) == EndsWith(Lower(name), ".mol2")

\* mol2_to_pdbqt.py lines 29-30
PdbqtPath(mol2) == SplitExtBase(mol2) \o <<".pdbqt">>

\* normalize_format.py lines 34-43: str.lstrip, str.rstrip and the rewrite
\* of the lines.
RECURSIVE LStrip(_)
LStrip(line) ==
    IF line # <<>> /\ IsSpace(Head(line)) THEN LStrip(Tail(line)) ELSE line

RECURSIVE RStrip(_)
RStrip(line) ==
    IF line # <<>> /\ IsSpace(line[Len(line)])
    THEN RStrip(SubSeq(line, 1, Len(line) - 1)) ELSE line

NormalizeLine(line) ==
    RStrip(IF StartsWith(LStrip(line), <<"MODEL">>) \/ StartsWith(LStrip(line), <<"ENDMDL">>)
           THEN LStrip(line) ELSE line)

normalize_pdbqt_format(lines) == [k \in 1..Len(lines) |-> NormalizeLine(lines[k])]

\* Inputs of the pipeline specification.
MoleculeNames == {"a", "b/c"}
\* The tables that list each molecule at most once.
Tables == { t \in SeqsUpTo(MoleculeNames, Cardinality(MoleculeNames)) :
              \A a, b \in 1..Len(t) : a # b => t[a] # t[b] }
OldMol2 == <<"old", ".mol2">>
OldLigand == <<"old", ".pdbqt">>
ReceptorFiles == {<<>>, <<LineRemark, LineShort>>, <<LineOrigin, LineFar>>}

InitPipeline ==
    /\ ppc = "load"
    /\ smiles_data \in Tables
    /\ row = 1
    /\ mol2_dir \in {{}, {OldMol2}}
    /\ ligand_folder \in {{}, {OldLigand, Notes}}
    /\ pdbqt_files = {}
    /\ receptor = "none"
    /\ normalized = {}
    /\ norm_failed = {}
    /\ fatal = ""
    /\ pdbqt = <<>> /\ padding = Fixed(10) /\ scanned = <<>> /\ box = NoBox
    /\ listing = <<>> /\ idx = 1 /\ dpc = "idle"
    /\ out_folder \in StaleFolders
    /\ summary = <<>> /\ docking_results = <<>> /\ jobs = <<>> /\ written = {}
    /\ earlier = NoRun("single")

Abort(stage) == ppc' = "aborted" /\ fatal' = stage

\* Line 18: data_io.load_smiles returns the table.
LoadSmiles ==
    /\ ppc = "load"
    /\ ppc' = "smiles"
    /\ UNCHANGED <<pipeRest, boxVars, dockVars>>

\* Line 18: data_io.load_smiles raises (no such file, no table in it).
LoadSmilesRaises ==
    /\ ppc = "load"
    /\ Abort("load")
    /\ UNCHANGED <<smiles_data, row, mol2_dir, pdbqt_files, receptor, normalized, norm_failed, boxVars, dockVars>>

\* Lines 26-31: one row is converted, obabel exits with status 0.
ConvertSmiles ==
    /\ ppc = "smiles"
    /\ row <= Len(smiles_data)
    /\ mol2_dir' = mol2_dir \cup {Mol2File(smiles_data[row])}
    /\ row' = row + 1
    /\ UNCHANGED <<ppc, smiles_data, pdbqt_files, receptor, normalized, norm_failed, fatal, boxVars, dockVars>>

\* Lines 26-31 and smiles_to_mol2.py lines 41-46: obabel exits with a
\* non-zero status, convert_smiles_to_mol2 logs and re-raises, and nothing in
\* run_pipeline catches the exception.
ConvertSmilesRaises ==
    /\ ppc = "smiles"
    /\ row <= Len(smiles_data)
    /\ Abort("smiles")
    /\ UNCHANGED <<smiles_data, row, mol2_dir, pdbqt_files, receptor, normalized, norm_failed, boxVars, dockVars>>

\* Lines 35-38 and mol2_to_pdbqt.py: every .mol2 file of mol2_dir is
\* converted; a failing conversion is logged and passed over.
ConvertMol2ToPdbqt ==
    /\ ppc = "smiles"
    /\ row > Len(smiles_data)
    /\ \E ok \in SUBSET { f \in mol2_dir : IsMol2File(f) } :
          /\ pdbqt_files' = { PdbqtPath(f) : f \in ok }
          /\ ligand_folder' = ligand_folder \cup { PdbqtPath(f) : f \in ok }
    /\ ppc' = "clean"
    /\ UNCHANGED <<smiles_data, row, mol2_dir, receptor, normalized, norm_failed, fatal, boxVars,
                   listing, idx, dpc, out_folder, summary, docking_results, jobs, written, earlier>>

\* Lines 41-42: rename_ligand_residue rewrites every returned file.
CleanPdbqt ==
    /\ ppc = "clean"
    /\ ppc' = "receptor"
    /\ UNCHANGED <<pipeRest, boxVars, dockVars>>

\* Lines 41-42: rename_ligand_residue raises on a file it cannot read.
CleanPdbqtRaises ==
    /\ ppc = "clean"
    /\ pdbqt_files # {}
    /\ Abort("clean")
    /\ UNCHANGED <<smiles_data, row, mol2_dir, pdbqt_files, receptor, normalized, norm_failed, boxVars, dockVars>>

\* Line 47 and pdb_to_pdbqt.py: both obabel calls exit with status 0 and
\* leave the receptor file.
PrepareReceptor ==
    /\ ppc = "receptor"
    /\ receptor' = "ok"
    /\ pdbqt' \in ReceptorFiles
    /\ ppc' = "volume"
    /\ UNCHANGED <<smiles_data, row, mol2_dir, pdbqt_files, normalized, norm_failed, fatal,
                   padding, scanned, box, dockVars>>

\* pdb_to_pdbqt.py lines 35-40, 60-65: an obabel call fails, the
\* CalledProcessError is re-raised and leaves run_pipeline.
PrepareReceptorRaises ==
    /\ ppc = "receptor"
    /\ Abort("receptor")
    /\ UNCHANGED <<smiles_data, row, mol2_dir, pdbqt_files, receptor, normalized, norm_failed, boxVars, dockVars>>

\* The ValueError of calculate_docking_box is swallowed.
ComputeVolume_swallow ==
    /\ ppc = "volume"
    /\ box' = calculate_docking_box(pdbqt, padding)
    /\ scanned' = pdbqt
    /\ ppc' = "docking"
    /\ UNCHANGED <<pipeRest, pdbqt, padding, dockVars>>

\* Line 56: the docking box of the receptor file; its ValueError leaves
\* run_pipeline.
ComputeVolume ==
    /\ ppc = "volume"
    /\ box' = calculate_docking_box(pdbqt, padding)
    /\ scanned' = pdbqt
    /\ IF box'.status = "ok"
       THEN ppc' = "docking" /\ fatal' = fatal
       ELSE Abort("volume")
    /\ UNCHANGED <<smiles_data, row, mol2_dir, pdbqt_files, receptor, normalized, norm_failed,
                   pdbqt, padding, dockVars>>

\* The .pdbqt files of the docking-output folder not yet handled by the loop
\* of lines 82-87.
ToNormalize ==
    { f \in DOMAIN out_folder : IsLigandFile(f) /\ f \notin normalized /\ f \notin norm_failed }

\* Lines 82-87: the next artifact is normalized in place.
Normalize ==
    /\ ppc = "normalize"
    /\ \E f \in ToNormalize :
          /\ out_folder' = [out_folder EXCEPT ![f] = normalize_pdbqt_format(out_folder[f])]
          /\ normalized' = normalized \cup {f}
    /\ UNCHANGED <<ppc, smiles_data, row, mol2_dir, pdbqt_files, receptor, norm_failed, fatal, boxVars,
                   ligand_folder, listing, idx, dpc, summary, docking_results, jobs, written, earlier>>

\* Lines 82-87 and normalize_format.py lines 23-47: reading or writing the
\* artifact raises, and nothing in run_pipeline catches the exception.
NormalizeRaises ==
    /\ ppc = "normalize"
    /\ \E f \in ToNormalize : norm_failed' = norm_failed \cup {f}
    /\ Abort("normalize")
    /\ UNCHANGED <<smiles_data, row, mol2_dir, pdbqt_files, receptor, normalized, boxVars, dockVars>>

\* The loop of lines 82-87 is over and run_pipeline returns.
PipelineReturn ==
    /\ ppc = "normalize"
    /\ ToNormalize = {}
    /\ ppc' = "done"
    /\ UNCHANGED <<pipeRest, boxVars, dockVars>>

NextPipeline ==
    \/ LoadSmiles
    \/ LoadSmilesRaises
    \/ ConvertSmiles
    \/ ConvertSmilesRaises
    \/ ConvertMol2ToPdbqt
    \/ CleanPdbqt
    \/ CleanPdbqtRaises
    \/ PrepareReceptor
    \/ PrepareReceptorRaises
    \/ ComputeVolume
    \/ NextDocking
    \/ Normalize
    \/ NormalizeRaises
    \/ PipelineReturn

SpecPipeline == InitPipeline /\ [][NextPipeline]_vars

----------------------------------------------------------------------------
(* Properties of calculate_docking_box *)

\* The coordinate triples of the valid atom-bearing lines, as a set.
ValidCoords(lines) ==
    { <<Float(Split(lines[k])[7]), Float(Split(lines[k])[8]), Float(Split(lines[k])[9])>> :
        k \in { n \in 1..Len(lines) : IsAtomLine(lines[n]) /\ CoordsOk(Split(lines[n])) } }

SetMin(S) == CHOOSE m \in S : \A n \in S : m <= n
SetMax(S) == CHOOSE m \in S : \A n \in S : m >= n
Axis(V, a) == { c[a] : c \in V }

\* C8: for a file with at least one valid atom coordinate triple and a padding
\* >= 0, calculate_docking_box returns center = (min + max) / 2 and
\* size = (max - min) + padding on each axis, min and max taken over all valid
\* atom-bearing lines; so size >= padding; atoms (0,0,0) and (10,6,4) with
\* padding 10 give center (5,3,2) and size (20,16,14).
C8_BoxFormula ==
    \A V \in {ValidCoords(scanned)} :
      (box.status # "none" /\ V # {} /\ padding >= 0) =>
        \A lo \in {<<SetMin(Axis(V, 1)), SetMin(Axis(V, 2)), SetMin(Axis(V, 3))>>},
           hi \in {<<SetMax(Axis(V, 1)), SetMax(Axis(V, 2)), SetMax(Axis(V, 3))>>} :
            /\ box.status = "ok"
            /\ 2 * box.center_x = lo[1] + hi[1]
            /\ 2 * box.center_y = lo[2] + hi[2]
            /\ 2 * box.center_z = lo[3] + hi[3]
            /\ box.size_x = (hi[1] - lo[1]) + padding
            /\ box.size_y = (hi[2] - lo[2]) + padding
            /\ box.size_z = (hi[3] - lo[3]) + padding
            /\ box.size_x >= padding /\ box.size_y >= padding /\ box.size_z >= padding
            /\ (V = {<<Fixed(0), Fixed(0), Fixed(0)>>, <<Fixed(10), Fixed(6), Fixed(4)>>}
                  /\ padding = Fixed(10)) =>
                   /\ <<box.center_x, box.center_y, box.center_z>> = <<Fixed(5), Fixed(3), Fixed(2)>>
                   /\ <<box.size_x, box.size_y, box.size_z>> = <<Fixed(20), Fixed(16), Fixed(14)>>

\* The two-atom scenario of C8 has been computed, next to a malformed line.
C8_Witness ==
    /\ box.status = "ok"
    /\ scanned = <<LineOrigin, LineBadY, LineFar>>
    /\ padding = Fixed(10)

\* C9: calculate_docking_box raises ValueError and returns no volume whenever
\* no atom-bearing line yields a valid coordinate triple: no ATOM/HETATM line
\* at all, or ATOM/HETATM lines that are all skipped as malformed.
C9_NoCoordinatesFound ==
    (box.status # "none" /\ ValidCoords(scanned) = {}) => box = BoxError

\* A file whose atom-bearing lines are all malformed has been read.
C9_Witness ==
    /\ box.status = "ValueError"
    /\ scanned = <<LineShort, LineRemark, LineBadY>>

\* C10: the result of calculate_docking_box is the same for every permutation
\* of the lines of the structure file: what was returned for the order read
\* is what the function returns for the current order of the same lines.
C10_PermutationInvariant ==
    box.status # "none" => box = calculate_docking_box(pdbqt, padding)

\* The lines were reordered after the call, a malformed line now first.
C10_Witness ==
    /\ box.status = "ok"
    /\ scanned = <<LineFar, LineShort, LineNeg>>
    /\ pdbqt = <<LineShort, LineNeg, LineFar>>

----------------------------------------------------------------------------
(* Properties of run_docking *)

\* The ligand files run_docking enumerates, in enumeration order.
Ligands == SelectSeq(listing, IsLigandFile)

HasResultLine(out) == \E k \in 1..Len(out) : StartsWith(out[k], Marker)

FirstResultLine(out) ==
    out[CHOOSE k \in 1..Len(out) :
            /\ StartsWith(out[k], Marker)
            /\ \A j \in 1..(k - 1) : ~StartsWith(out[j], Marker)]

Parsable(out) == HasResultLine(out) /\ Len(Split(FirstResultLine(out))) >= 4

Failed(job) == job.kind \in {"nonzero", "raised"}

HasRecord(name) == \E r \in 1..Len(docking_results) : docking_results[r].ligand = name
HasRow(name) == \E r \in 2..Len(summary) : summary[r][1] = name

\* C1: when the engine fails (non-zero status or exception) for the K-th of N
\* enumerated ligands and every other invocation succeeds with a parsable
\* result line, run_docking returns exactly N-1 records, none for ligand K,
\* and the engine was invoked for every ligand enumerated after K, each of
\* which has a record.
C1_OneFailureKeepsBatch ==
    dpc = "returned" =>
        \A K \in 1..Len(jobs) :
            ( /\ Failed(jobs[K])
              /\ \A j \in 1..Len(jobs) : j # K => (jobs[j].kind = "ok" /\ Parsable(jobs[j].stdout)) )
            => /\ Len(jobs) = Len(Ligands)
               /\ \A j \in 1..Len(Ligands) : jobs[j].ligand = Ligands[j]
               /\ Len(docking_results) = Len(Ligands) - 1
               /\ ~HasRecord(Ligands[K])
               /\ \A j \in (K + 1)..Len(Ligands) : HasRecord(Ligands[j])

\* The first of two ligands failed, the second was docked and recorded.
C1_Witness ==
    /\ dpc = "returned"
    /\ Len(jobs) = 2
    /\ jobs[1].kind = "nonzero"
    /\ jobs[2].kind = "ok"
    /\ Len(docking_results) = 1
    /\ docking_results[1].ligand = jobs[2].ligand

\* C2: a ligand whose engine invocation exits with status 0 while its output
\* has no line beginning with the result marker (empty output included) gets
\* no record, neither in the returned list nor in the summary file, no record
\* ever carries an empty score, and the batch goes on to the next ligand.
C2_NoResultLineNoRecord ==
    /\ \A k \in 1..Len(jobs) :
          (jobs[k].kind = "ok" /\ ~HasResultLine(jobs[k].stdout))
              => (~HasRecord(jobs[k].ligand) /\ ~HasRow(jobs[k].ligand))
    /\ \A r \in 1..Len(docking_results) : docking_results[r].binding_energy # <<>>
    /\ \A r \in 2..Len(summary) : summary[r][2] # <<>>
    /\ dpc = "returned" => Len(jobs) = Len(Ligands)

\* An empty output for the first ligand, whose stale capture file held a
\* result line, and a docked second ligand.
C2_Witness ==
    /\ dpc = "returned"
    /\ Len(jobs) = 2
    /\ jobs[1].ligand = LigA /\ jobs[1].kind = "ok" /\ jobs[1].stdout = <<>>
    /\ jobs[2].kind = "ok" /\ HasRecord(jobs[2].ligand)
    /\ out_folder[VinaLogFile(LigA)] = <<>>

\* C3: for a ligand whose engine invocation exits with status 0 and whose
\* capture file is written, a record exists exactly when the FIRST output line
\* that begins with the marker has at least 4 tokens, and its score is the 4th
\* token of that line; later marker lines never matter.
C3_FirstResultLineDecides ==
    \A k \in 1..Len(jobs) :
        jobs[k].kind = "ok" =>
            IF Parsable(jobs[k].stdout)
            THEN \A score \in {Split(FirstResultLine(jobs[k].stdout))[4]} :
                    /\ HasRecord(jobs[k].ligand)
                    /\ HasRow(jobs[k].ligand)
                    /\ \A r \in 1..Len(docking_results) :
                          docking_results[r].ligand = jobs[k].ligand =>
                              docking_results[r].binding_energy = score
                    /\ \A r \in 2..Len(summary) :
                          summary[r][1] = jobs[k].ligand => summary[r][2] = score
            ELSE ~HasRecord(jobs[k].ligand) /\ ~HasRow(jobs[k].ligand)

\* A first result line with too few tokens before a complete one: no record;
\* and a record whose score comes from the first of two result lines.
C3_Witness ==
    /\ dpc = "returned"
    /\ Len(jobs) = 2
    /\ jobs[1].kind = "ok" /\ jobs[1].stdout = <<OutBare, OutBest>>
    /\ jobs[2].kind = "ok" /\ jobs[2].stdout = <<OutGlued, OutBest>>
    /\ Len(docking_results) = 1
    /\ docking_results[1].binding_energy = <<"0">>

----------------------------------------------------------------------------
(* Properties of run_pipeline *)

\* C4: when receptor preparation or the docking-box computation fails,
\* run_pipeline ends with the error and the engine is never invoked: any
\* engine invocation, and the start of run_docking itself, comes after a
\* successful convert_pdb_to_pdbqt and a successful calculate_docking_box.
C4_NoDockingWithoutReceptorAndBox ==
    /\ (dpc # "idle" \/ jobs # <<>>) => (receptor = "ok" /\ box.status = "ok")
    /\ fatal \in {"receptor", "volume"} => (ppc = "aborted" /\ dpc = "idle" /\ jobs = <<>>)
    /\ box.status = "ValueError" => fatal = "volume"

\* The receptor file had no valid atom line: the run stopped with ligands
\* ready and no engine invocation.
C4_Witness ==
    /\ ppc = "aborted"
    /\ fatal = "volume"
    /\ receptor = "ok"
    /\ scanned = <<LineRemark, LineShort>>
    /\ \E f \in ligand_folder : IsLigandFile(f)
    /\ jobs = <<>>

\* C5: in the ligand-preparation stage a molecule whose SMILES cannot be
\* converted is dropped and the run is not aborted: the rows after it are
\* still converted and the pipeline goes on to receptor preparation.
C5_SmilesFailureTolerated ==
    ~(ppc = "aborted" /\ fatal = "smiles")

\* C6: in the post-processing stage a failure while normalizing one artifact
\* is tolerated: the other .pdbqt artifacts of the docking-output folder are
\* still normalized and the run does not end with a fatal error.
C6_NormalizeFailureTolerated ==
    norm_failed # {} =>
        /\ ~(ppc = "aborted" /\ fatal = "normalize")
        /\ ppc = "done" => \A f \in DOMAIN out_folder :
                               IsLigandFile(f) => f \in normalized \cup norm_failed

----------------------------------------------------------------------------
(* Lines calculate_docking_box passes over *)

IsMalformedAtomLine(line) == IsAtomLine(line) /\ ~CoordsOk(Split(line))
IsWellFormedOrOther(line) == ~IsMalformedAtomLine(line)

\* C11: a line that does not start with ATOM or HETATM never changes the
\* extrema, even with numbers as its 7th-9th tokens: the file read and the
\* file without some of its non-atom lines give the same result, be it a box
\* or the ValueError.
C11_NonAtomLinesIgnored ==
    (box.status # "none" /\ SelectSeq(pdbqt, IsAtomLine) = SelectSeq(scanned, IsAtomLine))
        => box = calculate_docking_box(pdbqt, padding)

\* A tagless line with numbers in the coordinate columns stood between two
\* atoms when the file was read, and is gone now.
C11_Witness ==
    /\ box.status = "ok"
    /\ scanned = <<LineOrigin, LineRemark, LineFar>>
    /\ pdbqt = <<LineOrigin, LineFar>>

\* C12: an atom line with fewer than 9 tokens or with an unparsable
\* coordinate token is skipped without an exception and leaves all six
\* extrema alone, and the scan goes on: the file read and the file without
\* some of its malformed atom lines give the same result.
C12_MalformedAtomLinesSkipped ==
    (box.status # "none"
       /\ SelectSeq(pdbqt, IsWellFormedOrOther) = SelectSeq(scanned, IsWellFormedOrOther))
        => box = calculate_docking_box(pdbqt, padding)

\* A line whose x parses and whose y does not came first, a short line last;
\* both are gone now.
C12_Witness ==
    /\ box.status = "ok"
    /\ scanned = <<LineBadY, LineOrigin, LineShort>>
    /\ pdbqt = <<LineOrigin>>

\* The engine outcomes of a run, by ligand file.
Outcomes(js) == { <<js[k].ligand, js[k].kind, js[k].stdout>> : k \in 1..Len(js) }

RowsOf(name) == { r \in 2..Len(summary) : summary[r][1] = name }

\* C13: when run_docking has run twice with the same ligand folder and output
\* folder and the engine outcomes of the second run are those of the first,
\* the output folder holds after the second run the artifact names it held
\* after the first, and the summary file holds the header once, as its first
\* line, and one row for each ligand with a record and no other row.
C13_RerunOverwrites ==
    (dpc = "returned" /\ earlier.batch = "second" /\ Outcomes(jobs) = Outcomes(earlier.jobs))
        => /\ DOMAIN out_folder = earlier.files
           /\ summary[1] = Header
           /\ \A r \in 2..Len(summary) : summary[r] # Header
           /\ \A k \in 1..Len(listing) :
                 Cardinality(RowsOf(listing[k])) = IF HasRecord(listing[k]) THEN 1 ELSE 0
           /\ Len(summary) = 1 + Len(docking_results)
           /\ Len(summary) = Len(earlier.summary)

C13_Witness ==
    /\ dpc = "returned" /\ earlier.batch = "second" /\ Outcomes(jobs) = Outcomes(earlier.jobs)
    /\ Len(jobs) = 2
    /\ \E a, b \in 1..2 : jobs[a].kind = "nonzero" /\ jobs[b].kind = "ok" /\ HasRecord(jobs[b].ligand)
    /\ listing # <<earlier.jobs[1].ligand, earlier.jobs[2].ligand>>

----------------------------------------------------------------------------
(* Properties of the ligand set of run_pipeline *)

\* The ligand files of the molecules of the current table whose conversions
\* succeeded in this run.
PreparedNow ==
    { PdbqtPath(Mol2File(smiles_data[r])) : r \in 1..Len(smiles_data) } \cap pdbqt_files

Invoked == { jobs[k].ligand : k \in 1..Len(jobs) }

\* C14: in a run of run_pipeline the ligands the docking engine is invoked
\* for are exactly the ligands prepared in this run from the current
\* molecule table, also when the output root holds ligand files of an
\* earlier run.
C14_DocksExactlyPreparedLigands ==
    (ppc \in {"normalize", "done"} /\ dpc = "returned") => Invoked = PreparedNow

----------------------------------------------------------------------------
(* Termination of run_docking *)

\* C15: run_docking eventually returns, also when an engine subprocess never
\* exits on its own.
C15_EventuallyReturns == <>(dpc = "returned")

----------------------------------------------------------------------------
(* Properties of the artifacts of one batch *)

\* C16: within one batch any two distinct enumerated ligand files have
\* different pose files and different capture files.
C16_DisjointOutputFiles ==
    \A a, b \in 1..Len(Ligands) :
        a # b => /\ OutputFile(Ligands[a]) # OutputFile(Ligands[b])
                 /\ VinaLogFile(Ligands[a]) # VinaLogFile(Ligands[b])

----------------------------------------------------------------------------
(* Properties of the summary file and the result list *)

\* The jobs that lead to a record.
Recorded(job) == job.kind = "ok" /\ Parsable(job.stdout)

RecordOf(job) ==
    [ligand |-> job.ligand, binding_energy |-> Split(FirstResultLine(job.stdout))[4]]

\* C17: at every point of run_docking and when it has returned, the summary
\* file holds the header row and then, in order, one row for each record of
\* the result list; the jobs were started in enumeration order and the
\* records are those of the jobs that led to a score, in that order, so a
\* failed job adds neither a row nor a record.
C17_SummaryRowsAreRecords ==
    (dpc \in {"loop", "returned"}) =>
        /\ summary[1] = Header
        /\ Len(summary) = 1 + Len(docking_results)
        /\ \A r \in 1..Len(docking_results) :
              summary[r + 1] = <<docking_results[r].ligand, docking_results[r].binding_energy>>
        /\ \A k \in 1..Len(jobs) : jobs[k].ligand = Ligands[k]
        /\ \A done \in {SelectSeq(jobs, Recorded)} :
              /\ Len(docking_results) = Len(done)
              /\ \A r \in 1..Len(done) : docking_results[r] = RecordOf(done[r])

\* Two jobs with different scores: two rows and two records in enumeration
\* order.
C17_Witness ==
    /\ dpc = "returned"
    /\ Len(jobs) = 2
    /\ Len(docking_results) = 2
    /\ docking_results[1].ligand = listing[1]
    /\ docking_results[2].ligand = listing[2]
    /\ docking_results[1].binding_energy # docking_results[2].binding_energy
    /\ Len(summary) = 3

\* C18: a ligand has a record in a run only if the engine exited with status
\* 0 for it in that run, and the score of the record is read from the stdout
\* of that invocation; a capture file an earlier run left is not parsed for
\* a ligand whose invocation fails in this run.
C18_RecordOnlyFromThisRun ==
    \A r \in 1..Len(docking_results) :
        \E k \in 1..Len(jobs) :
            /\ jobs[k].ligand = docking_results[r].ligand
            /\ Recorded(jobs[k])
            /\ docking_results[r] = RecordOf(jobs[k])

\* The second run of a batch: the invocation for a ligand fails, the capture
\* file of the first run with its result line is still in the output folder,
\* and the ligand has no record.
C18_Witness ==
    /\ dpc = "returned" /\ earlier.batch = "second"
    /\ \E k \in 1..Len(jobs) :
          /\ Failed(jobs[k])
          /\ VinaLogFile(jobs[k].ligand) \in DOMAIN out_folder
          /\ Parsable(out_folder[VinaLogFile(jobs[k].ligand)])
          /\ ~HasRecord(jobs[k].ligand)
          /\ \E r \in 1..Len(earlier.results) : earlier.results[r].ligand = jobs[k].ligand

====
